---- MODULE Spec2Model ----
(***************************************************************************)
(* A model of make_thumbs.py: the batch thumbnail generator.               *)
(*                                                                         *)
(* The file system is the program's only state: the source directory, the  *)
(* two derivative directories and the modification times of their files.   *)
(* One run of main() is Start, then one ProcessNext per scanned file, then *)
(* Finish.  Between runs the clock may advance (Tick) and a source may be  *)
(* replaced (ReplaceSource).  Pixel data is abstracted to the identity of  *)
(* the source a derivative was made from; the size arithmetic of the       *)
(* resize is modelled exactly and exercised by ResizeSpec.                 *)
(***************************************************************************)
EXTENDS Integers, Sequences, FiniteSets, TLC

VARIABLES
    src,        \* source directory: file name -> entry, or NoFile
    small,      \* small derivative directory: file name -> entry, or NoFile
    large,      \* large derivative directory: file name -> entry, or NoFile
    now,        \* the clock that stamps every write
    pc,         \* "idle" between runs, "loop" inside main()'s for loop
    todo,       \* imgs not yet handed to process_image in this run
    imgs,       \* the list main() scanned in this run
    outcome,    \* this run: file name -> the tuple process_image returned
    results,    \* this run: the counters main() prints
    setup,      \* how the last run's directory setup went, "none" before it
    exitStatus, \* exit status of the last finished run, "none" before it
    ranAt,      \* the clock when the last run reached the for loop
    prev,       \* inside the loop: the previous run's outcome kinds and clock
    changed,    \* sources replaced since the previous run finished
    writes,     \* <<directory, file name>> of each file the last call saved
    probe       \* ResizeSpec only: one image pushed through the resizer

vars == <<src, small, large, now, pc, todo, imgs, outcome, results,
          setup, exitStatus, ranAt, prev, changed, writes, probe>>

(***************************************************************************)
(* Bounds of the model.                                                    *)
(***************************************************************************)
MaxTime == 1
MaxDim == 9

\* the entry of a name that is not in a directory
NoFile == [exists |-> FALSE]
NoOutcome == <<>>

(***************************************************************************)
(* File names.  A name is a stem and a suffix; the suffix is the sequence  *)
(* of its characters, dot included, as Path.suffix gives it.               *)
(***************************************************************************)
Name(stem, suffix) == [stem |-> stem, suffix |-> suffix]

\* str.lower() on one character
LowerChar(c) ==
    CASE c = "J" -> "j" [] c = "P" -> "p" [] c = "G" -> "g"
      [] c = "E" -> "e" [] c = "N" -> "n" [] c = "W" -> "w"
      [] c = "B" -> "b" [] c = "T" -> "t" [] c = "I" -> "i"
      [] c = "F" -> "f" [] c = "H" -> "h" [] c = "C" -> "c"
      [] c = "X" -> "x"
      [] OTHER -> c

\* str.lower()
lower(s) == [i \in DOMAIN s |-> LowerChar(s[i])]

JPG  == <<".", "j", "p", "g">>
JPEG == <<".", "j", "p", "e", "g">>
PNG  == <<".", "p", "n", "g">>
WEBP == <<".", "w", "e", "b", "p">>
HEIC == <<".", "h", "e", "i", "c">>
HEIF == <<".", "h", "e", "i", "f">>
TIF  == <<".", "t", "i", "f">>
TIFF == <<".", "t", "i", "f", "f">>

\* the extensions save_image encodes natively
OutputExts == {JPG, JPEG, PNG, WEBP}

\* the scanner's allow-list
ImageExts == OutputExts \cup {HEIC, HEIF, TIF, TIFF}

is_image(p) == lower(p.suffix) \in ImageExts

\* out_ext without the .jpg default for extensions save_image cannot encode
out_ext_raw(p) == lower(p.suffix)

\* process_image: the extension of both derivatives
out_ext(p) ==
    LET ext == lower(p.suffix)
    IN  IF ext \in OutputExts THEN ext ELSE JPG

\* process_image: the name of both derivatives (small_out.name = large_out.name)
out_name(p) == Name(p.stem, out_ext(p))

\* Path.with_suffix
with_suffix(p, suffix) == Name(p.stem, suffix)

(***************************************************************************)
(* The directory entries the model ranges over.                            *)
(***************************************************************************)
aJPG == Name("a", <<".", "J", "P", "G">>)
aTif == Name("a", TIF)
nTxt == Name("n", <<".", "t", "x", "t">>)
dJpg == Name("d", JPG)

\* regular files that may be in the source directory
FileNames == {aJPG, aTif, nTxt}
\* a subdirectory that may be in the source directory
DirNames == {dJpg}
Names == FileNames \cup DirNames

\* every name a derivative directory may come to hold
OutNames ==
    UNION {{n, Name(n.stem, lower(n.suffix)), Name(n.stem, JPG)} : n \in Names}

Times == 0..MaxTime

\* a source file: its mtime, and whether Image.open and exif_transpose accept it
SrcFile(mtime, readable) ==
    [exists |-> TRUE, isFile |-> TRUE, mtime |-> mtime, readable |-> readable]
SrcDir == [exists |-> TRUE, isFile |-> FALSE, mtime |-> 0, readable |-> FALSE]

\* a derivative file: its mtime, the source it was made from, and whether the
\* encoder finished writing it
Derivative(mtime, by, complete) ==
    [exists |-> TRUE, mtime |-> mtime, by |-> by, complete |-> complete]

(***************************************************************************)
(* The resizer.  An image is its size <<width, height>>.                   *)
(***************************************************************************)
Abs(n) == IF n < 0 THEN -n ELSE n
Max2(a, b) == IF a >= b THEN a ELSE b

\* ImageOps.exif_transpose: orientations 5 to 8 turn the image on its side
exif_transpose(size, orient) ==
    IF orient \in 5..8 THEN <<size[2], size[1]>> ELSE size

\* Image.thumbnail's size: fit <<w, h>> into the box max_px x max_px, keep the
\* aspect ratio, never enlarge.  round_aspect takes the floor or the ceiling
\* of the exact short edge, whichever keeps the aspect ratio closer (the
\* floor on a tie), and at least 1.  The comparisons of the library's
\* floating-point keys are made here on the cross-multiplied integers.
thumbnail(size, max_px) ==
    LET w == size[1]
        h == size[2]
    IN  IF max_px >= w /\ max_px >= h THEN size
        ELSE IF h >= w
        THEN LET lo == (max_px * w) \div h
                 hi == IF lo * h = max_px * w THEN lo ELSE lo + 1
                 x  == IF Abs(w * max_px - lo * h) <= Abs(w * max_px - hi * h)
                       THEN lo ELSE hi
             IN  <<Max2(x, 1), max_px>>
        ELSE LET lo == (max_px * h) \div w
                 hi == IF lo * w = max_px * h THEN lo ELSE lo + 1
                 y  == IF lo = 0 \/ Abs(w * lo - max_px * h) * hi
                                    <= Abs(w * hi - max_px * h) * lo
                       THEN lo ELSE hi
             IN  <<max_px, Max2(y, 1)>>

\* resize_fit with Image.resize in the place of Image.thumbnail
resize_stretch(size, max_px) == <<max_px, max_px>>

\* resize_fit: a copy of the image, thumbnailed to max_px
resize_fit(size, max_px) == thumbnail(size, max_px)

(***************************************************************************)
(* The per-file pipeline.                                                  *)
(***************************************************************************)
\* where an exception may be raised once the freshness check has passed:
\* nowhere, in a resize, or in a save, which either raises before it touches
\* the file ("refused") or while it encodes into it ("partial")
FailPoints ==
    {"none", "resize", "small_refused", "small_partial",
     "large_refused", "large_partial"}

\* str(e): what the exception raised at a fail point says
Message(at) ==
    CASE at = "open" -> "cannot identify image file"
      [] at = "resize" -> "cannot resize"
      [] OTHER -> "cannot write"

\* how the save into directory which goes when the call is to fail at fail
SaveHow(fail, which) ==
    CASE fail = "small_refused" /\ which = "small" -> "refused"
      [] fail = "small_partial" /\ which = "small" -> "partial"
      [] fail = "large_refused" /\ which = "large" -> "refused"
      [] fail = "large_partial" /\ which = "large" -> "partial"
      [] OTHER -> "ok"

\* save_image on directory dir: the path it writes (the .jpg fallback for an
\* extension it cannot encode), the directory afterwards and whether it raised.
\* Image.save opens the file for writing, which truncates a file that is there
\* and stamps it; when the encoder raises, it removes the file only if this
\* call created it.  convert_mode changes the pixel format alone, which the
\* entry of a derivative does not record.
save_image(dir, out_path, by, how) ==
    LET ext  == lower(out_path.suffix)
        path == IF ext \in OutputExts THEN out_path
                ELSE with_suffix(out_path, JPG)
    IN  [path   |-> path,
         raised |-> how # "ok",
         dir    |-> CASE how = "ok" ->
                           [dir EXCEPT ![path] = Derivative(now, by, TRUE)]
                      [] how = "partial" /\ dir[path] # NoFile ->
                           [dir EXCEPT ![path] = Derivative(now, by, FALSE)]
                      [] OTHER -> dir]

\* the freshness test with > in the place of >=
fresh_strict(dir, out, in_path) ==
    dir[out] # NoFile /\ dir[out].mtime > src[in_path].mtime

\* the freshness test on one derivative
fresh(dir, out, in_path) ==
    dir[out] # NoFile /\ dir[out].mtime >= src[in_path].mtime

\* the skip with the small derivative saved before the freshness test
skipped_resave(in_path) ==
    [small |-> save_image(small, out_name(in_path), in_path, "ok").dir,
     large |-> large, writes |-> <<>>,
     result |-> <<"skipped", in_path>>]

\* process_image's early return for a fresh file
skipped(in_path) ==
    [small |-> small, large |-> large, writes |-> <<>>,
     result |-> <<"skipped", in_path>>]

\* process_image: the directories afterwards, the tuple returned and the files
\* saved.  The source is opened and transposed before anything else.
process_image(in_path, fail) ==
    LET out == out_name(in_path)
        err(s, l, at) ==
            [small |-> s, large |-> l, writes |-> <<>>,
             result |-> <<"error", in_path, Message(at)>>]
    IN  IF ~src[in_path].readable THEN err(small, large, "open")
        ELSE IF fresh(small, out, in_path) /\ fresh(large, out, in_path)
        THEN skipped(in_path)
        ELSE IF fail = "resize" THEN err(small, large, fail)
        ELSE LET s == save_image(small, out, in_path, SaveHow(fail, "small"))
             IN  IF s.raised THEN err(s.dir, large, fail)
                 ELSE LET l == save_image(large, out, in_path,
                                          SaveHow(fail, "large"))
                      IN  IF l.raised
                          THEN [err(s.dir, l.dir, fail) EXCEPT
                                   !.writes = <<<<"small", s.path>>>>]
                          ELSE [small |-> s.dir, large |-> l.dir,
                                writes |-> <<<<"small", s.path>>,
                                             <<"large", l.path>>>>,
                                result |-> <<"ok", in_path, out, out>>]

(***************************************************************************)
(* main()                                                                  *)
(***************************************************************************)
Kind(o) == IF o = NoOutcome THEN "none" ELSE o[1]

\* the list comprehension over src.iterdir()
Scan == {p \in Names : src[p] # NoFile /\ src[p].isFile /\ is_image(p)}

NoProbe == [stage |-> "off"]

NoPrev == [kind |-> [p \in Names |-> "none"], clock |-> 0]

\* the entries an image of the source directory may start as
SrcEntries == {NoFile} \cup {SrcFile(t, r) : t \in Times, r \in BOOLEAN}

\* the origin of a derivative that was there before the first run
Earlier == Name("", <<>>)

\* what an earlier run may have left under one name of a derivative directory
OldDerivatives == {NoFile} \cup {Derivative(t, Earlier, TRUE) : t \in Times}

EmptyDir == [o \in OutNames |-> NoFile]

\* the state main() may be started in: any images in the source directory,
\* beside a text file and a subdirectory, and any derivatives of earlier runs
Init ==
    /\ \E ea \in SrcEntries, et \in SrcEntries :
          src = [p \in Names |->
                    CASE p = aJPG -> ea
                      [] p = aTif -> et
                      [] p = nTxt -> SrcFile(0, FALSE)
                      [] p = dJpg -> SrcDir]
    /\ \E ds \in OldDerivatives :
          small = [EmptyDir EXCEPT ![out_name(aJPG)] = ds]
    /\ \E dl \in OldDerivatives :
          large = [EmptyDir EXCEPT ![out_name(aJPG)] = dl]
    /\ now = 0
    /\ pc = "idle"
    /\ todo = {}
    /\ imgs = {}
    /\ outcome = [p \in Names |-> NoOutcome]
    /\ results = [ok |-> 0, skipped |-> 0, error |-> 0]
    /\ setup = "none"
    /\ exitStatus = "none"
    /\ ranAt = 0
    /\ prev = NoPrev
    /\ changed = {}
    /\ writes = <<>>
    /\ probe = NoProbe

\* main() up to an uncaught exception of mkdir
StartNoMkdir ==
    /\ pc = "idle"
    /\ setup' = "mkdir raised"
    /\ exitStatus' = "exit 1"
    /\ imgs' = {}
    /\ outcome' = [p \in Names |-> NoOutcome]
    /\ results' = [ok |-> 0, skipped |-> 0, error |-> 0]
    /\ UNCHANGED <<src, small, large, now, pc, todo, ranAt, prev, changed,
                   writes, probe>>

\* main() up to an uncaught exception of iterdir
StartNoSrc ==
    /\ pc = "idle"
    /\ setup' = "iterdir raised"
    /\ exitStatus' = "exit 1"
    /\ imgs' = {}
    /\ outcome' = [p \in Names |-> NoOutcome]
    /\ results' = [ok |-> 0, skipped |-> 0, error |-> 0]
    /\ UNCHANGED <<src, small, large, now, pc, todo, ranAt, prev, changed,
                   writes, probe>>

\* main() up to the for loop
Start ==
    /\ pc = "idle"
    /\ setup' = "ok"
    /\ imgs' = Scan
    /\ todo' = Scan
    /\ results' = [ok |-> 0, skipped |-> 0, error |-> 0]
    /\ prev' = [kind |-> [p \in Names |-> Kind(outcome[p])], clock |-> ranAt]
    /\ ranAt' = now
    /\ outcome' = [p \in Names |-> NoOutcome]
    /\ exitStatus' = "none"
    /\ pc' = "loop"
    /\ UNCHANGED <<src, small, large, now, changed, writes, probe>>

\* the for loop without the try/except: the first error ends the batch
ProcessNextAbort ==
    /\ pc = "loop"
    /\ \E p \in todo, fail \in FailPoints :
          LET r == process_image(p, fail)
          IN  /\ small' = r.small
              /\ large' = r.large
              /\ writes' = r.writes
              /\ outcome' = [outcome EXCEPT ![p] = r.result]
              /\ results' = [results EXCEPT ![r.result[1]] = @ + 1]
              /\ todo' = IF r.result[1] = "error" THEN {} ELSE todo \ {p}
    /\ UNCHANGED <<src, now, pc, imgs, setup, exitStatus, ranAt, prev,
                   changed, probe>>

\* one iteration of the for loop; the listing order is the file system's
ProcessNext ==
    /\ pc = "loop"
    /\ \E p \in todo, fail \in FailPoints :
          LET r == process_image(p, fail)
          IN  /\ small' = r.small
              /\ large' = r.large
              /\ writes' = r.writes
              /\ outcome' = [outcome EXCEPT ![p] = r.result]
              /\ results' = [results EXCEPT ![r.result[1]] = @ + 1]
              /\ todo' = todo \ {p}
    /\ UNCHANGED <<src, now, pc, imgs, setup, exitStatus, ranAt, prev,
                   changed, probe>>

\* the end of main() with a failure status when a file had an error
FinishStrict ==
    /\ pc = "loop" /\ todo = {}
    /\ pc' = "idle"
    /\ exitStatus' = IF results.error > 0 THEN "exit 1" ELSE "exit 0"
    /\ prev' = NoPrev
    /\ changed' = {}
    /\ writes' = <<>>
    /\ UNCHANGED <<src, small, large, now, todo, imgs, outcome,
                   results, setup, ranAt, probe>>

\* the summary line and the normal end of main()
Finish ==
    /\ pc = "loop" /\ todo = {}
    /\ pc' = "idle"
    /\ exitStatus' = "exit 0"
    /\ prev' = NoPrev
    /\ changed' = {}
    /\ writes' = <<>>
    /\ UNCHANGED <<src, small, large, now, todo, imgs, outcome,
                   results, setup, ranAt, probe>>

(***************************************************************************)
(* The environment between two runs.                                       *)
(***************************************************************************)
\* the clock advances; a run is taken to be shorter than one tick of the
\* file system's timestamps
Tick ==
    /\ pc = "idle" /\ now < MaxTime
    /\ now' = now + 1
    /\ UNCHANGED <<src, small, large, pc, todo, imgs, outcome,
                   results, setup, exitStatus, ranAt, prev, changed, writes,
                   probe>>

\* a scanned source is overwritten, by an image or by something Image.open
\* rejects, and stamped by the clock; what precedes the first run is drawn
\* by Init
ReplaceSource ==
    /\ pc = "idle" /\ exitStatus = "exit 0"
    /\ \E p \in Scan, r \in BOOLEAN :
          /\ src' = [src EXCEPT ![p] = SrcFile(now, r)]
          /\ changed' = changed \cup {p}
    /\ UNCHANGED <<small, large, now, pc, todo, imgs, outcome,
                   results, setup, exitStatus, ranAt, prev, writes, probe>>

Next ==
    \/ StartNoMkdir
    \/ StartNoSrc
    \/ Start
    \/ ProcessNext
    \/ Finish
    \/ Tick
    \/ ReplaceSource

Spec == Init /\ [][Next]_vars

(***************************************************************************)
(* The resizer on its own: every image up to MaxDim x MaxDim, every        *)
(* orientation, every pair of size limits.                                 *)
(***************************************************************************)
InitResize ==
    /\ probe \in [stage : {"in"}, size : (1..MaxDim) \X (1..MaxDim),
                  orient : 1..8, max_small : 1..MaxDim, max_large : 1..MaxDim]
    /\ src = [p \in Names |-> NoFile]
    /\ small = [o \in OutNames |-> NoFile]
    /\ large = [o \in OutNames |-> NoFile]
    /\ now = 0
    /\ pc = "idle"
    /\ todo = {}
    /\ imgs = {}
    /\ outcome = [p \in Names |-> NoOutcome]
    /\ results = [ok |-> 0, skipped |-> 0, error |-> 0]
    /\ setup = "none"
    /\ exitStatus = "none"
    /\ ranAt = 0
    /\ prev = NoPrev
    /\ changed = {}
    /\ writes = <<>>

\* process_image's decode and resize steps on the probe image
Resize ==
    /\ probe.stage = "in"
    /\ LET im0 == exif_transpose(probe.size, probe.orient)
       IN  probe' = [stage |-> "out", im0 |-> im0,
                     max_small |-> probe.max_small,
                     max_large |-> probe.max_large,
                     small_im |-> resize_fit(im0, probe.max_small),
                     large_im |-> resize_fit(im0, probe.max_large)]
    /\ UNCHANGED <<src, small, large, now, pc, todo, imgs, outcome,
                   results, setup, exitStatus, ranAt, prev, changed, writes>>

ResizeSpec == InitResize /\ [][Resize]_vars

(***************************************************************************)
(* The claims.                                                             *)
(***************************************************************************)
\* the file the step hands to process_image, if the step is a ProcessNext
Processed == todo \ todo'

Sum(r) == r.ok + r.skipped + r.error

\* a second run is under way and no source was replaced since the first
SecondRunUnchanged == pc = "loop" /\ changed = {}

\* C1, as claimed: in a run that follows another with no source replaced in
\* between, every file the first run scanned gets the outcome skipped.
C1_AllSkipped ==
    SecondRunUnchanged =>
        \A p \in Names :
            prev.kind[p] # "none" /\ outcome[p] # NoOutcome
                => Kind(outcome[p]) = "skipped"

\* C1, amended: in a run that follows another with no source replaced in
\* between, every file for which the first run returned ok or skipped, and
\* whose mtime was not later than the clock of the first run, gets skipped.
C1_SkippedAgain ==
    SecondRunUnchanged =>
        \A p \in Names :
            /\ prev.kind[p] \in {"ok", "skipped"}
            /\ src[p].mtime <= prev.clock
            /\ outcome[p] # NoOutcome
            => Kind(outcome[p]) = "skipped"

C1_Witness ==
    /\ SecondRunUnchanged
    /\ prev.kind[aTif] = "ok" /\ prev.kind[aJPG] = "skipped"
    /\ Kind(outcome[aTif]) = "skipped" /\ Kind(outcome[aJPG]) = "skipped"

\* C2: inside the loop every file handed to process_image has exactly one
\* outcome and the others none, the counters count the outcomes by kind, and
\* when main() ends every scanned file has an outcome and the three counters
\* add up to the number of scanned files.
C2_ErrorIsolation ==
    /\ \A p \in Names : outcome[p] # NoOutcome <=> p \in imgs \ todo
    /\ \A k \in {"ok", "skipped", "error"} :
          results[k] = Cardinality({p \in imgs : Kind(outcome[p]) = k})
    /\ pc = "loop" => imgs = Scan
    /\ exitStatus = "exit 0" =>
          /\ \A p \in Scan : outcome[p] # NoOutcome
          /\ Sum(results) = Cardinality(imgs)

C2_Witness ==
    /\ exitStatus = "exit 0"
    /\ Kind(outcome[aJPG]) = "error" /\ Kind(outcome[aTif]) = "ok"
    /\ results = [ok |-> 1, skipped |-> 0, error |-> 1]

\* C3, as claimed: processing one scanned file never overwrites a derivative
\* made from another scanned file.
C3_NoOverwrite ==
    [][\A p \in Processed : \A o \in OutNames :
          /\ small[o] # NoFile /\ small[o].by \in imgs \ {p}
                => small'[o] = small[o]
          /\ large[o] # NoFile /\ large[o].by \in imgs \ {p}
                => large'[o] = large[o]]_vars

\* C4, as claimed: the derivative names reported for a source have its stem;
\* they are the source's own name when its extension is an output format in
\* any letter case, and have the extension .jpg otherwise.
C4_Naming ==
    \A p \in Names :
        Kind(outcome[p]) = "ok" =>
            \A d \in {outcome[p][3], outcome[p][4]} :
                /\ d.stem = p.stem
                /\ lower(p.suffix) \in OutputExts => d = p
                /\ lower(p.suffix) \notin OutputExts => d.suffix = JPG

\* C5, as claimed: a file is skipped exactly when both of its derivatives
\* exist and are not older than it.
C5_SkipIffFresh ==
    [][\A p \in Processed :
          (fresh(small, out_name(p), p) /\ fresh(large, out_name(p), p))
              <=> Kind(outcome'[p]) = "skipped"]_vars

\* out fits the box max_px x max_px, is no larger than size, has its shorter
\* edge within one pixel of the exact scaled edge, and is size when size fits
FitsBound(size, out, max_px) ==
    /\ out[1] >= 1 /\ out[2] >= 1
    /\ out[1] <= max_px /\ out[2] <= max_px
    /\ out[1] <= size[1] /\ out[2] <= size[2]
    /\ IF size[2] >= size[1]
       THEN Abs(out[1] * size[2] - out[2] * size[1]) < size[2]
       ELSE Abs(out[2] * size[1] - out[1] * size[2]) < size[1]
    /\ size[1] <= max_px /\ size[2] <= max_px => out = size

\* C6: each derivative fits its limit, is no larger than the image, keeps
\* the aspect ratio to within one pixel on the shorter edge, and is the image
\* itself when the image already fits.
C6_ResizeBound ==
    probe.stage = "out" =>
        /\ FitsBound(probe.im0, probe.small_im, probe.max_small)
        /\ FitsBound(probe.im0, probe.large_im, probe.max_large)

C6_Witness ==
    /\ probe.stage = "out"
    /\ probe.im0 = <<MaxDim, 2>>
    /\ probe.small_im[1] = probe.max_small /\ probe.small_im # probe.im0
    /\ probe.large_im = probe.im0

C8_NotMasked ==
    pc = "loop" =>
        \A p \in Names :
            prev.kind[p] = "error" /\ p \notin changed
                => Kind(outcome[p]) # "skipped"

\* directory dir holds a finished derivative of source p under name
Saved(dir, name, p) ==
    dir[name] # NoFile /\ dir[name].by = p /\ dir[name].complete

\* C9, as claimed: an ok outcome means the call saved the small and then the
\* large derivative, at exactly the reported names, complete, made from this
\* source and not older than it.
C9_OkNotOlder ==
    [][\A p \in Processed :
          Kind(outcome'[p]) = "ok" =>
              /\ writes' = <<<<"small", outcome'[p][3]>>,
                             <<"large", outcome'[p][4]>>>>
              /\ Saved(small', outcome'[p][3], p)
              /\ Saved(large', outcome'[p][4], p)
              /\ small'[outcome'[p][3]].mtime >= src[p].mtime
              /\ large'[outcome'[p][4]].mtime >= src[p].mtime]_vars

\* C9, amended: an ok outcome means the call saved the small and then the
\* large derivative, at exactly the reported names, complete, made from this
\* source and stamped with the clock of the write; they are not older than
\* the source when the source's mtime is not later than that clock.
C9_OkWritten ==
    [][\A p \in Processed :
          Kind(outcome'[p]) = "ok" =>
              /\ writes' = <<<<"small", outcome'[p][3]>>,
                             <<"large", outcome'[p][4]>>>>
              /\ Saved(small', outcome'[p][3], p)
              /\ Saved(large', outcome'[p][4], p)
              /\ small'[outcome'[p][3]].mtime = now
              /\ large'[outcome'[p][4]].mtime = now
              /\ src[p].mtime <= now =>
                    /\ small'[outcome'[p][3]].mtime >= src[p].mtime
                    /\ large'[outcome'[p][4]].mtime >= src[p].mtime]_vars

C9_Witness ==
    /\ Kind(outcome[aTif]) = "ok"
    /\ writes = <<<<"small", Name("a", JPG)>>, <<"large", Name("a", JPG)>>>>
    /\ Saved(small, Name("a", JPG), aTif)
    /\ Saved(large, Name("a", JPG), aTif)

\* C10: a call that returns skipped leaves the source directory and both
\* derivative directories as they were, and saves nothing.
C10_SkipWritesNothing ==
    [][\A p \in Processed :
          Kind(outcome'[p]) = "skipped" =>
              /\ src' = src
              /\ small' = small
              /\ large' = large
              /\ writes' = <<>>]_vars

C10_Witness ==
    /\ Kind(outcome[aJPG]) = "skipped"
    /\ writes = <<>>
    /\ small[Name("a", JPG)] # NoFile
    /\ large[Name("a", JPG)] # NoFile

====
